---- MODULE Spec2Model ----
(***************************************************************************)
(* Model of the UX-audit analyse endpoint: the POST handler of             *)
(* src/unnamed/part_000 (providers ollama and gemini, one-shot gemini) and *)
(* the POST handler of src/app/api/analyze/route.ts (providers ollama,     *)
(* openai and gemini, all three streamed).                                 *)
(*                                                                         *)
(* Text is modelled as a sequence of pieces.  A piece is a string of one   *)
(* or more characters; the text it stands for is the concatenation of its  *)
(* pieces.  A read of the upstream body may end between any two pieces, so *)
(* a line feed is always a piece of its own.                               *)
(***************************************************************************)
EXTENDS Integers, Sequences, FiniteSets, TLC

\* ------------------------------------------------------------------ bounds
\* Most frames in one streamed upstream body.
MaxFrames == 3
\* Most parts in one generateContent document.
MaxParts == 2

\* ------------------------------------------------------------------ pieces
LF == "\n"
QUOTE == "\""
ESC_LF == "\\n"
ESC_QUOTE == "\\\""
COMMA == ","
STR_CLOSE == "\"}"
OL_OPEN == "{\"response\":\""
OL_DONE == "{\"done\":true}"
SSE_DATA == "data: "
SSE_DONE == "[DONE]"
SSE_PING == ": ping"
OA_OPEN == "{\"choices\":[{\"delta\":{\"content\":\""
OA_CLOSE == "\"}}]}"
GM_OPEN == "{\"candidates\":[{\"content\":{\"parts\":["
GM_PART == "{\"text\":\""
GM_CLOSE == "]}}]}"
DL_OPEN == "{\"delta\":\""
ERR_OPEN == "{\"error\":\""
EMPTY_OBJ == "{}"

\* JavaScript's undefined, for a request field or environment variable that is absent.
Undefined == "<undefined>"

\* The characters of a string that JSON writes as they are (LF and QUOTE it escapes).
PlainChars == {"a", "b", "U+0060", "[gemini ok]", "[empty text]", "No URL/HTML provided.",
               "Missing Google API key.", "Unknown provider", "model not found"}

\* ------------------------------------------------------------ sequence helpers
RECURSIVE Flatten(_)
Flatten(ss) == IF ss = <<>> THEN <<>> ELSE Head(ss) \o Flatten(Tail(ss))

RECURSIVE IndexOf(_, _, _)
\* Least i >= from with s[i] = x, or 0.
IndexOf(s, x, from) ==
    IF from > Len(s) THEN 0
    ELSE IF s[from] = x THEN from
    ELSE IndexOf(s, x, from + 1)

RECURSIVE SplitLF(_)
\* String.prototype.split("\n"): the pieces between line feeds, empty ones kept.
SplitLF(s) ==
    LET i == IndexOf(s, LF, 1)
    IN  IF i = 0 THEN <<s>>
        ELSE <<SubSeq(s, 1, i - 1)>> \o SplitLF(SubSeq(s, i + 1, Len(s)))

RECURSIVE IndexOfLFLF(_, _)
\* Least i >= from with s[i] = s[i+1] = "\n", or 0.
IndexOfLFLF(s, from) ==
    IF from + 1 > Len(s) THEN 0
    ELSE IF s[from] = LF /\ s[from + 1] = LF THEN from
    ELSE IndexOfLFLF(s, from + 1)

RECURSIVE SplitLFLF(_)
\* String.prototype.split("\n\n"): leftmost non-overlapping separators.
SplitLFLF(s) ==
    LET i == IndexOfLFLF(s, 1)
    IN  IF i = 0 THEN <<s>>
        ELSE <<SubSeq(s, 1, i - 1)>> \o SplitLFLF(SubSeq(s, i + 2, Len(s)))

\* Array.prototype.filter(Boolean) on strings: the empty string is falsy.
FilterBoolean(ss) == SelectSeq(ss, LAMBDA l : l # <<>>)

\* ------------------------------------------------------------------- JSON
SPACE == " "
\* White space, of which the texts here hold spaces and line feeds.
IsSpace(c) == c \in {SPACE, LF}
RECURSIVE SkipSpace(_)
\* What is left of s after the white space at its head.
SkipSpace(s) == IF s # <<>> /\ IsSpace(Head(s)) THEN SkipSpace(Tail(s)) ELSE s
RECURSIVE TrimSpaces(_)
\* String.prototype.trim, on a text whose white space is spaces and line feeds.
TrimSpaces(s) ==
    IF s = <<>> THEN s
    ELSE IF IsSpace(Head(s)) THEN TrimSpaces(Tail(s))
    ELSE IF IsSpace(s[Len(s)]) THEN TrimSpaces(SubSeq(s, 1, Len(s) - 1))
    ELSE s

\* The contents of a JSON string literal: no raw line feed, no raw quote.
IsStrBody(s) == \A i \in 1..Len(s) : s[i] \in PlainChars \cup {SPACE, ESC_LF, ESC_QUOTE}

\* A stringify that leaves control characters and quotes as they are.
EncodeChar_Raw(c) == c
DecodeChar(c) == IF c = ESC_LF THEN LF ELSE IF c = ESC_QUOTE THEN QUOTE ELSE c
EncodeChar(c) == IF c = LF THEN ESC_LF ELSE IF c = QUOTE THEN ESC_QUOTE ELSE c

\* The string a JSON string literal's contents denote.
DecodeStr(s) == [i \in 1..Len(s) |-> DecodeChar(s[i])]
\* JSON.stringify of a string, without the enclosing quotes.
EncodeStr(t) == [i \in 1..Len(t) |-> EncodeChar(t[i])]

RECURSIVE ParseParts(_)
\* The elements of a non-empty array of {"text": ...} objects, white space
\* allowed around each: [ok, texts], texts the decoded text of each in order.
ParseParts(s0) ==
    LET s == SkipSpace(s0)
        c == IndexOf(s, STR_CLOSE, 2)
        body == SubSeq(s, 2, c - 1)
        rest == SkipSpace(SubSeq(s, c + 1, Len(s)))
    IN  IF s = <<>> \/ Head(s) # GM_PART \/ c = 0 \/ ~IsStrBody(body)
        THEN [ok |-> FALSE, texts |-> <<>>]
        ELSE IF rest = <<>> THEN [ok |-> TRUE, texts |-> <<DecodeStr(body)>>]
        ELSE IF Head(rest) # COMMA THEN [ok |-> FALSE, texts |-> <<>>]
        ELSE LET more == ParseParts(Tail(rest))
             IN  [ok |-> more.ok,
                  texts |-> IF more.ok THEN <<DecodeStr(body)>> \o more.texts ELSE <<>>]

NoJSON == [ok |-> FALSE, kind |-> "none", has |-> {}, str |-> <<>>, parts |-> <<>>]
JSONObj(field, s) ==
    [ok |-> TRUE, kind |-> "object", has |-> {field}, str |-> s, parts |-> <<>>]

\* JSON.parse on the texts the endpoints and the page hand to it: white space
\* around the value is skipped; ok is FALSE where it throws; kind tells an
\* object from a string; has names the top-level key present; str is that
\* key's string value (or the string itself); parts the texts of
\* candidates[0].content.parts.
JSONparse(s0) ==
    LET s == TrimSpaces(s0)
        n == Len(s)
        inner == SubSeq(s, 2, n - 1)
    IN  IF n = 1 /\ s[1] = EMPTY_OBJ THEN [NoJSON EXCEPT !.ok = TRUE, !.kind = "object"]
        ELSE IF n = 1 /\ s[1] = OL_DONE
             THEN [NoJSON EXCEPT !.ok = TRUE, !.kind = "object", !.has = {"done"}]
        ELSE IF n >= 2 /\ s[1] = OL_OPEN /\ s[n] = STR_CLOSE /\ IsStrBody(inner)
             THEN JSONObj("response", DecodeStr(inner))
        ELSE IF n >= 2 /\ s[1] = OA_OPEN /\ s[n] = OA_CLOSE /\ IsStrBody(inner)
             THEN JSONObj("content", DecodeStr(inner))
        ELSE IF n >= 2 /\ s[1] = DL_OPEN /\ s[n] = STR_CLOSE /\ IsStrBody(inner)
             THEN JSONObj("delta", DecodeStr(inner))
        ELSE IF n >= 2 /\ s[1] = ERR_OPEN /\ s[n] = STR_CLOSE /\ IsStrBody(inner)
             THEN JSONObj("error", DecodeStr(inner))
        ELSE IF n >= 2 /\ s[1] = GM_PART /\ s[n] = STR_CLOSE /\ IsStrBody(inner)
             THEN JSONObj("text", DecodeStr(inner))
        ELSE IF n >= 2 /\ s[1] = GM_OPEN /\ s[n] = GM_CLOSE /\ SkipSpace(inner) = <<>>
             THEN [NoJSON EXCEPT !.ok = TRUE, !.kind = "object", !.has = {"candidates"}]
        ELSE IF n >= 2 /\ s[1] = GM_OPEN /\ s[n] = GM_CLOSE /\ ParseParts(inner).ok
             THEN [ok |-> TRUE, kind |-> "object", has |-> {"candidates"}, str |-> <<>>,
                   parts |-> ParseParts(inner).texts]
        ELSE IF n >= 2 /\ s[1] = QUOTE /\ s[n] = QUOTE /\ IsStrBody(inner)
             THEN [NoJSON EXCEPT !.ok = TRUE, !.kind = "string", !.str = DecodeStr(inner)]
        ELSE NoJSON

\* JSON.stringify({delta: t}) and JSON.stringify({error: t}).
StringifyDelta(t) == <<DL_OPEN>> \o EncodeStr(t) \o <<STR_CLOSE>>
StringifyError(t) == <<ERR_OPEN>> \o EncodeStr(t) \o <<STR_CLOSE>>


\* --------------------------------------------------------------- request
\* The two route files of the repository.
PART_000 == "src/unnamed/part_000"
ROUTE_TS == "src/app/api/analyze/route.ts"
Handlers == {PART_000, ROUTE_TS}

\* A url is a sequence of characters; the empty sequence is the empty or absent
\* url (both are falsy at the one place the handlers read it).
URL_HTTP == <<"h", "t", "t", "p", ":", "/", "/", "x">>
URL_HTTPS_UPPER == <<"H", "T", "T", "P", "S", ":", "/", "/", "x">>
URL_FTP == <<"f", "t", "p", ":", "/", "/", "x">>
URL_HTTP_NO_SLASHES == <<"h", "t", "t", "p", ":", "x">>
Urls == {<<>>, URL_HTTP, URL_HTTPS_UPPER, URL_FTP, URL_HTTP_NO_SLASHES}

INLINE_HTML == "<p>inline</p>"
FETCHED_HTML == "<p>fetched</p>"
Htmls == {Undefined, "", INLINE_HTML}
Providers == {"ollama", "openai", "gemini", "claude"}
Keys == {Undefined, "", "request-key"}
Envs == {[GOOGLE_API_KEY |-> Undefined, OPENAI_API_KEY |-> Undefined],
         [GOOGLE_API_KEY |-> "google-env-key", OPENAI_API_KEY |-> "openai-env-key"]}

\* JavaScript truthiness of a string-or-undefined value.
Falsy(v) == v = Undefined \/ v = ""
\* a || b
OrElse(a, b) == IF Falsy(a) THEN b ELSE a

LowerChar(c) ==
    IF c = "H" THEN "h" ELSE IF c = "T" THEN "t" ELSE IF c = "P" THEN "p"
    ELSE IF c = "S" THEN "s" ELSE IF c = "G" THEN "g" ELSE IF c = "E" THEN "e"
    ELSE IF c = "M" THEN "m" ELSE IF c = "I" THEN "i" ELSE IF c = "N" THEN "n" ELSE c
Lower(u) == [i \in 1..Len(u) |-> LowerChar(u[i])]
StartsWith(u, p) == Len(u) >= Len(p) /\ SubSeq(u, 1, Len(p)) = p

\* A test that looks at the scheme's first four letters only.
HttpRegexTest_PrefixOnly(u) == StartsWith(Lower(u), <<"h", "t", "t", "p">>)
\* /^https?:\/\//i.test(url)
HttpRegexTest(u) ==
    \/ StartsWith(Lower(u), <<"h", "t", "t", "p", ":", "/", "/">>)
    \/ StartsWith(Lower(u), <<"h", "t", "t", "p", "s", ":", "/", "/">>)
\* url.startsWith("http")
StartsWithHttp(u) == StartsWith(u, <<"h", "t", "t", "p">>)

\* let rawHtml = html || ""
InitialRawHtml(r) == OrElse(r.html, "")

\* The condition under which the handler fetches the target page.
NeedsFetch(h, r) ==
    IF h = PART_000
    THEN InitialRawHtml(r) = "" /\ r.url # <<>> /\ HttpRegexTest(r.url)
    ELSE r.url # <<>> /\ StartsWithHttp(r.url)

\* A handler without the empty-markup guard.
NoUsableHtml_Never(raw) == FALSE
\* if (!rawHtml) return 400
NoUsableHtml(raw) == raw = ""

\* A dispatch whose last branch is taken by default instead of tested for.
Branch_DefaultsToOllama(h, p) ==
    IF p = "openai" /\ h = ROUTE_TS THEN "openai"
    ELSE IF p = "gemini" THEN "gemini"
    ELSE "ollama"
\* The branch of POST a provider value selects.
Branch(h, p) ==
    IF p = "ollama" THEN "ollama"
    ELSE IF p = "openai" /\ h = ROUTE_TS THEN "openai"
    ELSE IF p = "gemini" THEN "gemini"
    ELSE "unknown"

\* const geminiKey = key || process.env.GOOGLE_API_KEY
GeminiKey(r, e) == OrElse(r.key, e.GOOGLE_API_KEY)
\* A gemini branch without the key guard.
MissingKey_Never(h, k) == FALSE
\* if (!geminiKey) return 400: only the handler of part_000 checks.
MissingKey(h, k) == h = PART_000 /\ Falsy(k)

\* A model name is a sequence of characters; the empty sequence is the empty or
\* absent model.  The fixed names are one piece each.
MODEL_GPT == <<"g", "p", "t", "-", "4">>
MODEL_GEMINI_UPPER == <<"G", "E", "M", "I", "N", "I", "-", "x">>
MODEL_LLAMA == <<"l", "l", "a", "m", "a">>
MODEL_XGPT == <<"x", "g", "p", "t", "-">>
MODEL_GPT_NO_DASH == <<"g", "p", "t", "4">>
Models == {<<>>, MODEL_GPT, MODEL_GEMINI_UPPER, MODEL_LLAMA, MODEL_XGPT, MODEL_GPT_NO_DASH}
DEFAULT_OLLAMA_MODEL == <<"deepseek-r1:14b">>

\* The same test without the i flag.
ForeignModelRegexTest_CaseSensitive(m) ==
    \/ StartsWith(m, <<"g", "p", "t", "-">>)
    \/ StartsWith(m, <<"g", "e", "m", "i", "n", "i">>)
\* /^gpt-|^gemini/i.test(modelName)
ForeignModelRegexTest(m) ==
    \/ StartsWith(Lower(m), <<"g", "p", "t", "-">>)
    \/ StartsWith(Lower(m), <<"g", "e", "m", "i", "n", "i">>)

\* let modelName = model || "deepseek-r1:14b"; overridden when it looks foreign.
OllamaModel(m) ==
    LET modelName == IF m = <<>> THEN DEFAULT_OLLAMA_MODEL ELSE m
    IN  IF ForeignModelRegexTest(modelName) THEN DEFAULT_OLLAMA_MODEL ELSE modelName

\* The model name a branch sends upstream.
ModelName(h, b, r) ==
    IF b = "ollama" THEN (IF h = PART_000 THEN OllamaModel(r.model) ELSE DEFAULT_OLLAMA_MODEL)
    ELSE IF b = "openai" THEN <<"gpt-4o-mini">>
    ELSE IF h = PART_000
         THEN (IF r.model = <<>> THEN <<"gemini-2.5-flash-lite">> ELSE r.model)
         ELSE <<"gemini-1.5-flash-latest">>

\* The credential a branch sends upstream.
Credential(h, b, r, e) ==
    IF b = "openai" THEN e.OPENAI_API_KEY
    ELSE IF b = "gemini" THEN (IF h = PART_000 THEN GeminiKey(r, e) ELSE e.GOOGLE_API_KEY)
    ELSE ""

\* r.ok
Ok(status) == status >= 200 /\ status <= 299

\* Whether the branch answers with a stream fed by a read loop.
IsStreamed(h, b) == b \in {"ollama", "openai"} \/ (b = "gemini" /\ h = ROUTE_TS)


\* ------------------------------------------------- what the network answers
\* All sequences over F of length at most n.
SeqsUpTo(F, n) == UNION {[1..k -> F] : k \in 0..n}

\* One line of the generate endpoint: two fragments, the final status line,
\* and a line cut short (not JSON).
OllamaFrames == {<<OL_OPEN, "a", STR_CLOSE>>, <<OL_OPEN, "b", ESC_LF, STR_CLOSE>>,
                 <<OL_DONE>>, <<OL_OPEN, "a">>}
\* One SSE frame of the chat-completions endpoint: two fragments, the [DONE]
\* sentinel, a comment frame, and a data frame cut short (not JSON).
SseFrames == {<<SSE_DATA, OA_OPEN, "a", OA_CLOSE>>, <<SSE_DATA, OA_OPEN, "b", ESC_LF, OA_CLOSE>>,
              <<SSE_DATA, SSE_DONE>>, <<SSE_PING>>, <<SSE_DATA, OA_OPEN, "a">>}
\* One line of streamGenerateContent.
GeminiFrames == {<<GM_OPEN, GM_PART, "a", STR_CLOSE, GM_CLOSE>>,
                 <<GM_OPEN, GM_PART, "b", STR_CLOSE, COMMA, GM_PART, "a", STR_CLOSE, GM_CLOSE>>,
                 <<GM_OPEN, GM_CLOSE>>, <<GM_OPEN, GM_PART, "a">>}

FramesOf(b) == IF b = "ollama" THEN OllamaFrames ELSE IF b = "openai" THEN SseFrames ELSE GeminiFrames
\* What ends a frame on the wire: a line feed, or a blank line for SSE.
Terminator(b) == IF b = "openai" THEN <<LF, LF>> ELSE <<LF>>
\* The body made of the frames fs, each followed by its terminator.
WireBody(b, fs) == Flatten([i \in 1..Len(fs) |-> fs[i] \o Terminator(b)])
StreamBodies(b, n) == {WireBody(b, fs) : fs \in SeqsUpTo(FramesOf(b), n)}

\* generateContent documents: the texts of the parts, joined into one document.
PartTexts == {<<"a">>, <<"b", ESC_LF>>, <<>>}
RECURSIVE JoinParts(_)
JoinParts(ts) ==
    IF ts = <<>> THEN <<>>
    ELSE <<GM_PART>> \o Head(ts) \o <<STR_CLOSE>>
         \o (IF Len(ts) = 1 THEN <<>> ELSE <<COMMA>> \o JoinParts(Tail(ts)))
RAW_TEXT == <<"a", QUOTE, LF, "b">>
GeminiDocs(n) == {<<GM_OPEN>> \o JoinParts(ts) \o <<GM_CLOSE>> : ts \in SeqsUpTo(PartTexts, n)}
                 \cup {<<EMPTY_OBJ>>, RAW_TEXT}

ERROR_DOC == <<ERR_OPEN, "model not found", STR_CLOSE>>
NoPage == [throws |-> FALSE, text |-> ""]
PageOutcomes == {[throws |-> TRUE, text |-> ""], [throws |-> FALSE, text |-> ""],
                 [throws |-> FALSE, text |-> FETCHED_HTML]}
NoUpstream == [throws |-> TRUE, status |-> 0, body |-> <<>>]
Answer(st, bd) == [throws |-> FALSE, status |-> st, body |-> bd]
FailedAnswers == {NoUpstream, Answer(404, ERROR_DOC), Answer(500, RAW_TEXT)}
\* One body per streamed branch, for the requests that vary everything else.
SampleBody(b) == WireBody(b, <<CHOOSE f \in FramesOf(b) : JSONparse(f).ok \/ Head(f) = SSE_DATA>>)

\* ------------------------------------------------- page signals and prompt
MaxElems == 3
HtmlOver == 2
\* html.slice(0, 4000)
SliceLimit == 4000

\* The text t holds the word w as a substring (case-sensitive).
Contains(t, w) == \E i \in 0..(Len(t) - Len(w)) : SubSeq(t, i + 1, i + Len(w)) = w

\* One element of the parsed document: its tag, the attributes the selectors
\* look at, its text, and src, the markup it was parsed from.
El(tag, type, class, text, src) ==
    [tag |-> tag, type |-> type, name |-> "", role |-> "", class |-> class,
     testid |-> <<>>, ariaInvalid |-> FALSE, ariaCurrent |-> "", text |-> text, src |-> src]

E_TITLE == El("title", "", {}, <<" ", "S", "h", "o", "p", " ">>, "<title> Shop </title>")
E_VIEWPORT ==
    [El("meta", "", {}, <<>>, "<meta name=\"viewport\" content=\"width=device-width\">")
        EXCEPT !.name = "viewport"]
E_FORM == El("form", "", {}, <<>>, "<form></form>")
E_INPUT_SUBMIT == El("input", "submit", {}, <<>>, "<input type=\"submit\" value=\"Send\">")
E_LABEL == El("label", "", {}, <<"E", "m", "a", "i", "l">>, "<label>Email</label>")
E_SUBMIT == El("button", "submit", {}, <<"G", "o">>, "<button type=\"submit\">Go</button>")
E_SIGN_IN ==
    El("button", "", {}, <<LF, " ", "S", "i", "g", "n", " ", "i", "n", LF>>,
       "<button>\n Sign in\n</button>")
E_BUY ==
    El("button", "button", {"btn"}, <<"B", "u", "y", " ", "n", "o", "w">>,
       "<button type=\"button\" class=\"btn\">Buy now</button>")
E_SIGN_IN_CAPS ==
    El("button", "", {}, <<"S", "i", "g", "n", " ", "I", "n">>, "<button>Sign In</button>")
E_ANCHOR_BUTTON ==
    El("a", "", {"button", "wide"}, <<" ", "L", "a", "t", "e", "r">>,
       "<a class=\"button wide\"> Later</a>")
E_ANCHOR_ROLE ==
    [El("a", "", {"buttons"}, <<"H", "o", "m", "e">>,
        "<a role=\"button\" class=\"buttons\">Home</a>")
        EXCEPT !.role = "button"]
E_ERROR ==
    [El("span", "", {"error"}, <<"B", "a", "d">>,
        "<span class=\"error\" aria-invalid=\"true\" data-testid=\"x-button\">Bad</span>")
        EXCEPT !.ariaInvalid = TRUE, !.testid = <<"x", "-", "b", "u", "t", "t", "o", "n">>]
E_STEP ==
    [El("li", "", {}, <<"1">>, "<li aria-current=\"step\">1</li>")
        EXCEPT !.ariaCurrent = "step"]

Elements == {E_TITLE, E_VIEWPORT, E_FORM, E_INPUT_SUBMIT, E_LABEL, E_SUBMIT, E_SIGN_IN, E_BUY,
             E_SIGN_IN_CAPS, E_ANCHOR_BUTTON, E_ANCHOR_ROLE, E_ERROR, E_STEP}
\* The documents: the elements of the page in document order.
Docs(n) == SeqsUpTo(Elements, n)
\* The markup cheerio.load parses into doc: one piece per element, each piece
\* a run of characters far shorter than the slice limit.
MarkupOf(doc) == [i \in 1..Len(doc) |-> doc[i].src]

\* The two pages the requests carry or fetch: one paragraph each.
E_P_INLINE == El("p", "", {}, <<"i", "n", "l", "i", "n", "e">>, INLINE_HTML)
E_P_FETCHED == El("p", "", {}, <<"f", "e", "t", "c", "h", "e", "d">>, FETCHED_HTML)
\* cheerio.load(rawHtml) of a markup that is one element, or none.
Load(raw) ==
    LET known == Elements \cup {E_P_INLINE, E_P_FETCHED}
    IN  IF \E e \in known : e.src = raw THEN <<CHOOSE e \in known : e.src = raw>> ELSE <<>>
\* rawHtml as the text the prompt embeds: one piece for the whole page.
MarkupText(raw) == IF raw = "" THEN <<>> ELSE <<raw>>

\* A markup of n characters holding no element: its first character, the last
\* one a slice keeps, and those past the limit are told apart.
LAST_KEPT == "Z"
PAST_LIMIT == "!"
TextMarkup(n) ==
    [i \in 1..n |-> IF i > SliceLimit THEN PAST_LIMIT
                    ELSE IF i = SliceLimit THEN LAST_KEPT
                    ELSE IF i = 1 THEN "x" ELSE "p"]
MarkupLengths == {0, 1, 2} \cup ((SliceLimit - 1)..(SliceLimit + HtmlOver))

\* The selectors of runRules, as tests on one element.
IsTitle(e) == e.tag = "title"
IsViewport(e) == e.tag = "meta" /\ e.name = "viewport"
IsForm(e) == e.tag = "form"
IsInput(e) == e.tag \in {"input", "select", "textarea"}
IsLabel(e) == e.tag = "label"
\* "button, a[role=button], .btn, [data-testid*=button]" in part_000,
\* "button, a[role=button]" in route.ts.
IsButton(h, e) ==
    \/ e.tag = "button"
    \/ e.tag = "a" /\ e.role = "button"
    \/ h = PART_000 /\ "btn" \in e.class
    \/ h = PART_000 /\ Contains(e.testid, <<"b", "u", "t", "t", "o", "n">>)
IsSubmitButton(e) == e.tag = "button" /\ e.type = "submit"
IsSignInButton(e) == e.tag = "button" /\ Contains(e.text, <<"S", "i", "g", "n", " ", "i", "n">>)
IsBuyButton(e) == e.tag = "button" /\ Contains(e.text, <<"B", "u", "y">>)
IsAnchorButton(e) == e.tag = "a" /\ "button" \in e.class
IsValidationHint(e) == e.ariaInvalid \/ "error" \in e.class \/ "error-message" \in e.class
IsProgress(e) == e.tag = "progress" \/ "step" \in e.class \/ e.ariaCurrent = "step"

\* $(selector).first().text(): the text of the first element selected, if any.
FirstText(selected) == IF selected = <<>> THEN <<>> ELSE selected[1].text

\* A selector list that tries its selectors one after the other and keeps the
\* matches of the first that has any.
primaryCtaGuess_BySelector(doc) ==
    LET bySubmit == SelectSeq(doc, IsSubmitButton)
        bySignIn == SelectSeq(doc, IsSignInButton)
        byBuy == SelectSeq(doc, IsBuyButton)
        byAnchor == SelectSeq(doc, IsAnchorButton)
    IN  TrimSpaces(FirstText(IF bySubmit # <<>> THEN bySubmit
                             ELSE IF bySignIn # <<>> THEN bySignIn
                             ELSE IF byBuy # <<>> THEN byBuy ELSE byAnchor))
\* $('button[type="submit"], button:contains("Sign in"), button:contains("Buy"),
\* a.button').first().text().trim(): a selector list selects, in document
\* order, the elements that match any of its selectors.
primaryCtaGuess(doc) ==
    LET IsCta(e) == IsSubmitButton(e) \/ IsSignInButton(e) \/ IsBuyButton(e)
                    \/ IsAnchorButton(e)
    IN  TrimSpaces(FirstText(SelectSeq(doc, IsCta)))

runRules(h, doc) ==
    [title |-> TrimSpaces(FirstText(SelectSeq(doc, IsTitle))),
     hasViewport |-> Len(SelectSeq(doc, IsViewport)) > 0,
     forms |-> Len(SelectSeq(doc, IsForm)),
     inputs |-> Len(SelectSeq(doc, IsInput)),
     labels |-> Len(SelectSeq(doc, IsLabel)),
     buttons |-> Len(SelectSeq(doc, LAMBDA e : IsButton(h, e))),
     primaryCtaGuess |-> primaryCtaGuess(doc),
     hasInlineValidationHint |-> Len(SelectSeq(doc, IsValidationHint)) > 0,
     hasProgress |-> Len(SelectSeq(doc, IsProgress)) > 0]
NoSignals == runRules(PART_000, <<>>)

\* A slice that also keeps the character at index end.
Slice_Inclusive(s, start, end) ==
    SubSeq(s, start + 1, IF end + 1 < Len(s) THEN end + 1 ELSE Len(s))
\* String.prototype.slice(start, end) for 0 <= start <= end.
Slice(s, start, end) == SubSeq(s, start + 1, IF end < Len(s) THEN end ELSE Len(s))

\* String(n) of a count.
RECURSIVE DecimalString(_)
DecimalString(n) ==
    IF n < 10 THEN <<<<"0", "1", "2", "3", "4", "5", "6", "7", "8", "9">>[n + 1]>>
    ELSE DecimalString(n \div 10) \o DecimalString(n % 10)
\* String(b) of a boolean.
BoolString(b) == IF b THEN <<"true">> ELSE <<"false">>
\* text || "(none)"
OrNone(text) == IF text = <<>> THEN <<"(none)">> ELSE text

\* The fixed lines that open the template of each handler, the line both
\* templates have (before the signals in part_000, after them in route.ts),
\* and the headings.
PROMPT_TASK == "You are a UX auditor. [...] Use concise British English."
PROMPT_TASK_ROUTE == "You are a UX auditor. [...] Use British English. Be concise."
NO_FENCES == "Do not wrap the whole response in code fences."
SIGNALS_HEADING == "### Extracted signals"
RAW_HTML_HEADING == "### Raw HTML (may be truncated)"
RAW_HTML_HEADING_ROUTE == "### Raw HTML (truncated if too long)"
RawHtmlHeading(h) == IF h = PART_000 THEN RAW_HTML_HEADING ELSE RAW_HTML_HEADING_ROUTE

buildPrompt(h, html, signals) ==
    (IF h = PART_000 THEN <<PROMPT_TASK, LF, NO_FENCES, LF>> ELSE <<PROMPT_TASK_ROUTE, LF>>)
    \o <<LF, SIGNALS_HEADING, LF>>
    \o <<"- title: ">> \o OrNone(signals.title) \o <<LF>>
    \o <<"- hasViewport: ">> \o BoolString(signals.hasViewport) \o <<LF>>
    \o <<"- forms: ">> \o DecimalString(signals.forms)
    \o <<", inputs: ">> \o DecimalString(signals.inputs)
    \o <<", labels: ">> \o DecimalString(signals.labels) \o <<LF>>
    \o <<"- buttons: ">> \o DecimalString(signals.buttons)
    \o <<", primaryCtaGuess: ", QUOTE>> \o OrNone(signals.primaryCtaGuess) \o <<QUOTE, LF>>
    \o <<"- hasInlineValidationHint: ">> \o BoolString(signals.hasInlineValidationHint) \o <<LF>>
    \o <<"- hasProgress: ">> \o BoolString(signals.hasProgress) \o <<LF>>
    \o (IF h = PART_000 THEN <<>> ELSE <<LF, NO_FENCES, LF>>)
    \o <<LF, RawHtmlHeading(h), LF>>
    \o Slice(html, 0, SliceLimit)
    \o <<LF>>

\* ---------------------------------------------------------------- client
MaxLines == 2
\* Most user events that change state: changes of the form's fields and
\* clicks on Analyze that post a request.
MaxEvents == 3

\* What is typed into the url field and the html field, what the provider
\* select offers, and what is typed into the key and model fields.
ClientUrls == {"", "http://x"}
ClientHtmls == {"", INLINE_HTML}
ClientProviders == {"ollama", "gemini"}
ClientKeys == {"", "request-key"}
GEMINI_DEFAULT_MODEL == "gemini-2.5-flash-lite"
OLLAMA_DEFAULT_MODEL == "deepseek-r1:14b"
ClientModels == {GEMINI_DEFAULT_MODEL, "custom-model"}
\* useEffect(..., [provider]): the model a change of provider sets.
ModelAfterProvider(p, m) ==
    IF p = "gemini" THEN GEMINI_DEFAULT_MODEL
    ELSE IF p = "ollama" THEN OLLAMA_DEFAULT_MODEL
    ELSE m

\* The grave accent, by its code point.
BACKTICK == "U+0060"
\* The characters of [a-zA-Z0-9_-] among those the deltas are written with.
WordChars == {"a", "b"}
IsFenceAt(s) == Len(s) >= 3 /\ s[1] = BACKTICK /\ s[2] = BACKTICK /\ s[3] = BACKTICK
RECURSIVE DropWordRun(_)
\* [a-zA-Z0-9_-]* matched at the head of s: what is left of s after it.
DropWordRun(s) == IF s # <<>> /\ Head(s) \in WordChars THEN DropWordRun(Tail(s)) ELSE s
\* \s? matched at the head of s: what is left of s after it.
DropOneSpace(s) == IF s # <<>> /\ IsSpace(Head(s)) THEN Tail(s) ELSE s
RECURSIVE StripOpeningFences(_)
\* s.replace(/```[a-zA-Z0-9_-]*\s?/g, ""), on a text of single characters.
StripOpeningFences(s) ==
    IF s = <<>> THEN s
    ELSE IF IsFenceAt(s)
         THEN StripOpeningFences(DropOneSpace(DropWordRun(SubSeq(s, 4, Len(s)))))
    ELSE <<Head(s)>> \o StripOpeningFences(Tail(s))
RECURSIVE StripBareFences(_)
\* s.replace(/```/g, "")
StripBareFences(s) ==
    IF s = <<>> THEN s
    ELSE IF IsFenceAt(s) THEN StripBareFences(SubSeq(s, 4, Len(s)))
    ELSE <<Head(s)>> \o StripBareFences(Tail(s))
stripCodeFences(s) == StripBareFences(StripOpeningFences(s))

\* obj.delta of a parsed line, the empty text when absent.
DeltaField(obj) == IF obj.ok /\ "delta" \in obj.has THEN obj.str ELSE <<>>
\* What one line of a chunk adds to result: the cleaned delta of a line that
\* parses and has a truthy delta, nothing otherwise.
CleanedDelta(line) == stripCodeFences(DeltaField(JSONparse(line)))

\* The lines a response body is made of: a plain record, a record that opens
\* a code fence, a line without delta (lines cut short come of the reads).
CL_PLAIN == <<DL_OPEN, "a", STR_CLOSE>>
CL_FENCE_OPEN == <<DL_OPEN, BACKTICK, BACKTICK, BACKTICK, "a", ESC_LF, "b", STR_CLOSE>>
CL_NO_DELTA == <<EMPTY_OBJ>>
ClientLines == {CL_PLAIN, CL_FENCE_OPEN, CL_NO_DELTA}
ClientBodies(n) == {WireBody("ollama", ls) : ls \in SeqsUpTo(ClientLines, n)}

\* What fetch("/api/analyze") settles with: a rejection, or a Response with
\* its status, its status text, whether res.body is there, and its body.
FetchRejects ==
    [throws |-> TRUE, status |-> 0, statusText |-> "", hasBody |-> FALSE, body |-> <<>>]
Res(st, stText, hasBody, bd) ==
    [throws |-> FALSE, status |-> st, statusText |-> stText, hasBody |-> hasBody, body |-> bd]
Responses ==
    {FetchRejects,
     Res(400, "Bad Request", TRUE, StringifyError(<<"No URL/HTML provided.">>)),
     Res(404, "Not Found", TRUE, <<EMPTY_OBJ>>),
     Res(500, "Internal Server Error", TRUE, RAW_TEXT),
     Res(200, "OK", FALSE, <<>>),
     Res(200, "OK", FALSE, CL_FENCE_OPEN \o <<LF>>),
     Res(200, "OK", FALSE, RAW_TEXT)}
    \cup {Res(200, "OK", TRUE, bd) : bd \in ClientBodies(MaxLines)}

\* JSON.stringify of a parsed document.
Stringify(obj) ==
    IF obj.kind = "string" THEN <<QUOTE>> \o EncodeStr(obj.str) \o <<QUOTE>>
    ELSE IF "delta" \in obj.has THEN StringifyDelta(obj.str)
    ELSE IF "error" \in obj.has THEN StringifyError(obj.str)
    ELSE IF "response" \in obj.has THEN <<OL_OPEN>> \o EncodeStr(obj.str) \o <<STR_CLOSE>>
    ELSE IF "text" \in obj.has THEN <<GM_PART>> \o EncodeStr(obj.str) \o <<STR_CLOSE>>
    ELSE IF "done" \in obj.has THEN <<OL_DONE>>
    ELSE <<EMPTY_OBJ>>
\* let msg = text; try { const j = JSON.parse(text); msg = j.error || JSON.stringify(j) } catch {}
ErrorMessage(text) ==
    LET j == JSONparse(text)
    IN  IF ~j.ok THEN text
        ELSE IF "error" \in j.has /\ j.str # <<>> THEN j.str
        ELSE Stringify(j)
\* The result of the fallback for a response without a body reader.
FallbackResult(text) ==
    IF DeltaField(JSONparse(text)) # <<>> THEN stripCodeFences(DeltaField(JSONparse(text)))
    ELSE IF text = <<>> THEN <<"[empty response body]">> ELSE text
\* `HTTP ${res.status} ${res.statusText}`
StatusLine(r) == <<"HTTP ">> \o DecimalString(r.status) \o <<" ", r.statusText>>

\* A handler whose finally block is missing.
Finally_Missing(l) == l
\* finally { setLoading(false) }
Finally(l) == FALSE

VARIABLES
    handler,    \* the route file that serves the request
    req,        \* the request body: [url, html, provider, key]
    env,        \* process.env
    page,       \* what the fetch of the target page answers, if it is made
    upstream,   \* what the model provider answers, if it is called
    pc,         \* POST: "start", "await_page", "await_model", "returned", "threw"
    rawHtml,    \* POST's rawHtml
    calls,      \* the outbound network calls issued so far, in order
    resp,       \* the Response POST returned: [status, ctype, body, streamed]
    spc,        \* the read loop: "idle", "read", "write", "closed", "failed"
    unread,     \* the part of the upstream body no read has returned yet
    buffer,     \* the openai loop's buffer
    pending,    \* the records of the current read not yet written
    out,        \* the chunks written to the outbound stream, in order
    consumer,   \* the reader of the outbound stream: "idle", "pulling", "gone"
    rejected,   \* a writer.write of the loop has rejected and been caught
    extracted,  \* history: every record the loops' for statements were handed
    doc,        \* $: the document cheerio.load made of the markup
    markup,     \* the markup runRules and buildPrompt are applied to
    signals,    \* const signals
    prompt,     \* const prompt
    ppc,        \* the prompt's construction: "idle", "loaded", "ruled", "built"
    url,        \* the client's url field
    htmlInput,  \* the client's pasted html
    provider,   \* the client's provider select
    model,      \* the client's model field
    apiKey,     \* the client's key field
    userEvents, \* how many field changes and posting clicks there have been
    loading,    \* the client's loading flag
    result,     \* the client's result text
    statusText, \* the client's status line
    errorText,  \* the client's error message
    res,        \* what the client's fetch settles with
    cpc,        \* handleAnalyze: "idle", "fetching", "error_text", "fallback_text",
                \* "reading", "exited"
    inbound,    \* the part of res.body the client's reads have not returned yet
    sent        \* the request bodies the client has posted, in order

\* The outbound side of the TransformStream, as the loop leaves it alone.
outbound == <<consumer, rejected, extracted>>

\* What POST's dispatch and its read loops work on.
postVars == <<handler, req, env, page, upstream, pc, rawHtml, calls, resp, spc, unread,
              buffer, pending, out, consumer, rejected, extracted>>
\* What the construction of the prompt works on.
promptVars == <<doc, markup, signals, prompt, ppc>>

\* What the page component works on.
clientVars == <<url, htmlInput, provider, model, apiKey, userEvents, loading, result, statusText,
                errorText, res, cpc, inbound, sent>>
\* The fields of the form and the count of user events.
formVars == <<url, htmlInput, provider, model, apiKey, userEvents>>

vars == <<handler, req, env, page, upstream, pc, rawHtml, calls, resp, spc, unread,
          buffer, pending, out, consumer, rejected, extracted, doc, markup, signals,
          prompt, ppc, url, htmlInput, provider, model, apiKey, userEvents, loading, result,
          statusText, errorText, res, cpc, inbound, sent>>

\* The page as it is rendered first, before any click.
ClientAtRest ==
    /\ url = ""
    /\ htmlInput = ""
    /\ provider = "gemini"
    /\ model = GEMINI_DEFAULT_MODEL
    /\ apiKey = ""
    /\ userEvents = 0
    /\ loading = FALSE
    /\ result = <<>>
    /\ statusText = <<>>
    /\ errorText = <<>>
    /\ res = FetchRejects
    /\ cpc = "idle"
    /\ inbound = <<>>
    /\ sent = <<>>

NoResponse == [status |-> 0, ctype |-> "", body |-> <<>>, streamed |-> FALSE]
JsonError(msg) ==
    [status |-> 400, ctype |-> "application/json", body |-> StringifyError(<<msg>>),
     streamed |-> FALSE]

Requests == [url : Urls, html : Htmls, provider : Providers, key : Keys, model : {<<>>}]
\* The requests under which the read loops are explored in full.
InlineRequests == [url : {<<>>}, html : {INLINE_HTML}, provider : Providers \ {"claude"},
                   key : {"request-key"}, model : {<<>>}]
\* The requests that vary the model name.
ModelRequests == [url : {<<>>}, html : {INLINE_HTML}, provider : Providers,
                  key : {"request-key"}, model : Models \ {<<>>}]

InitWorld ==
    \/ /\ handler \in Handlers
       /\ req \in Requests \cup ModelRequests
       /\ env \in Envs
       /\ page \in (IF NeedsFetch(handler, req) THEN PageOutcomes ELSE {NoPage})
       /\ LET b == Branch(handler, req.provider)
          IN  upstream \in
                IF b = "unknown" THEN {NoUpstream}
                ELSE IF IsStreamed(handler, b) THEN FailedAnswers \cup {Answer(200, SampleBody(b))}
                ELSE FailedAnswers \cup {Answer(200, d) : d \in GeminiDocs(MaxParts)}
    \/ /\ handler \in Handlers
       /\ req \in InlineRequests
       /\ env \in {e \in Envs : e.OPENAI_API_KEY # Undefined}
       /\ page = NoPage
       /\ LET b == Branch(handler, req.provider)
          IN  /\ IsStreamed(handler, b)
              /\ upstream \in {Answer(200, bd) : bd \in StreamBodies(b, MaxFrames)}

Init ==
    /\ InitWorld
    /\ pc = "start"
    /\ rawHtml = ""
    /\ calls = <<>>
    /\ resp = NoResponse
    /\ spc = "idle"
    /\ unread = <<>>
    /\ buffer = <<>>
    /\ pending = <<>>
    /\ out = <<>>
    /\ consumer = "idle"
    /\ rejected = FALSE
    /\ extracted = <<>>
    /\ doc = <<>>
    /\ markup = <<>>
    /\ signals = NoSignals
    /\ prompt = <<>>
    /\ ppc = "idle"
    /\ ClientAtRest

\* ------------------------------------------------------------- dispatcher
\* A fetch helper that sends every request a second time.
Issue_Twice(cs, c) == Append(Append(cs, c), c)
\* One fetch(...): one network attempt, appended to the calls made so far.
Issue(cs, c) == Append(cs, c)

PageCall(u) == [to |-> "page", url |-> u, prompt |-> <<>>, key |-> "", model |-> <<>>]
\* The call to the model endpoint of branch b; prompt is the prompt its body
\* carries, key the credential sent along.
ModelCall(b, text) ==
    [to |-> b, url |-> <<>>, prompt |-> text,
     key |-> Credential(handler, b, req, env), model |-> ModelName(handler, b, req)]

Return(r, cs) == pc' = "returned" /\ resp' = r /\ calls' = cs

\* POST from the resolved markup to its next await or return: without markup
\* it returns at once; with markup it loads the document, extracts the signals
\* and builds the prompt, then takes the provider's branch.
Dispatch(raw, cs) ==
    LET b == Branch(handler, req.provider)
        loaded == Load(raw)
        found == runRules(handler, loaded)
        built == buildPrompt(handler, MarkupText(raw), found)
    IN  IF NoUsableHtml(raw)
        THEN /\ Return(JsonError("No URL/HTML provided."), cs)
             /\ UNCHANGED promptVars
        ELSE /\ doc' = loaded
             /\ markup' = MarkupText(raw)
             /\ signals' = found
             /\ prompt' = built
             /\ ppc' = "built"
             /\ IF b = "unknown" THEN Return(JsonError("Unknown provider"), cs)
                ELSE IF b = "gemini" /\ MissingKey(handler, GeminiKey(req, env))
                     THEN Return(JsonError("Missing Google API key."), cs)
                ELSE /\ calls' = Issue(cs, ModelCall(b, built))
                     /\ pc' = "await_model"
                     /\ resp' = resp

\* POST is called: it resolves the input and either awaits the page or dispatches.
Post ==
    /\ pc = "start"
    /\ rawHtml' = InitialRawHtml(req)
    /\ IF NeedsFetch(handler, req)
       THEN /\ calls' = Issue(calls, PageCall(req.url))
            /\ pc' = "await_page"
            /\ resp' = resp
            /\ UNCHANGED promptVars
       ELSE Dispatch(rawHtml', calls)
    /\ UNCHANGED <<handler, req, env, page, upstream, spc, unread, buffer, pending, out>>
    /\ UNCHANGED outbound
    /\ UNCHANGED clientVars

\* A catch block that keeps the error's message as the markup.
ResolvedHtml_ErrorText(raw, p) == IF p.throws THEN "TypeError: fetch failed" ELSE p.text
\* try { rawHtml = await (await fetch(url)).text() } catch {}
ResolvedHtml(raw, p) == IF p.throws THEN raw ELSE p.text

\* The fetch of the target page settles; a failure is swallowed.
PageAnswers ==
    /\ pc = "await_page"
    /\ rawHtml' = ResolvedHtml(rawHtml, page)
    /\ Dispatch(rawHtml', calls)
    /\ UNCHANGED <<handler, req, env, page, upstream, spc, unread, buffer, pending, out>>
    /\ UNCHANGED outbound
    /\ UNCHANGED clientVars

\* ------------------------------------------------------- one-shot gemini
\* The parts' texts joined: the const text of the try block.
ShadowedText(textBody) == Flatten(JSONparse(textBody).parts)
\* The outer let text after the try/catch: the try block assigns nothing to it.
GeminiText(textBody) == IF JSONparse(textBody).ok THEN <<>> ELSE textBody

GeminiDelta(textBody) ==
    <<"[gemini ok]", LF>>
    \o (IF GeminiText(textBody) = <<>> THEN <<"[empty text]">> ELSE GeminiText(textBody))

GeminiResponse(status, textBody) ==
    IF ~Ok(status)
    THEN [status |-> status, ctype |-> "text/plain; charset=utf-8", body |-> textBody,
          streamed |-> FALSE]
    ELSE [status |-> 200, ctype |-> "text/plain; charset=utf-8",
          body |-> StringifyDelta(GeminiDelta(textBody)) \o <<LF>>, streamed |-> FALSE]

StreamResponse ==
    [status |-> 200, ctype |-> "text/plain; charset=utf-8", body |-> <<>>, streamed |-> TRUE]

\* The call to the model provider settles.
UpstreamAnswers ==
    /\ pc = "await_model"
    /\ LET b == Branch(handler, req.provider)
       IN  IF upstream.throws
           THEN pc' = "threw" /\ UNCHANGED <<resp, spc, unread>>
           ELSE IF IsStreamed(handler, b)
           THEN /\ pc' = "returned"
                /\ resp' = StreamResponse
                /\ spc' = "read"
                /\ unread' = upstream.body
           ELSE /\ pc' = "returned"
                /\ resp' = GeminiResponse(upstream.status, upstream.body)
                /\ UNCHANGED <<spc, unread>>
    /\ UNCHANGED <<handler, req, env, page, upstream, rawHtml, calls, buffer, pending, out>>
    /\ UNCHANGED outbound
    /\ UNCHANGED promptVars
    /\ UNCHANGED clientVars

\* ------------------------------------------------------------ read loops
RECURSIVE Trim(_)
\* String.prototype.trim, on a text whose only white space is line feeds.
Trim(s) ==
    IF s = <<>> THEN s
    ELSE IF Head(s) = LF THEN Trim(Tail(s))
    ELSE IF s[Len(s)] = LF THEN Trim(SubSeq(s, 1, Len(s) - 1))
    ELSE s

\* The text a line of the generate endpoint carries: obj.response, if truthy.
OllamaText(line) ==
    LET obj == JSONparse(line) IN IF "response" \in obj.has THEN obj.str ELSE <<>>
\* candidates?.[0]?.content?.parts?.[0]?.text of a streamGenerateContent line.
GeminiLineText(line) ==
    LET obj == JSONparse(line) IN IF obj.parts # <<>> THEN obj.parts[1] ELSE <<>>
\* The text an SSE frame carries: choices?.[0]?.delta?.content of a data frame.
SseText(evt) ==
    IF evt = <<>> \/ Head(evt) # SSE_DATA THEN <<>>
    ELSE LET json == Trim(Tail(evt))
             obj == JSONparse(json)
         IN  IF json = <<SSE_DONE>> THEN <<>>
             ELSE IF "content" \in obj.has THEN obj.str ELSE <<>>

FrameText(b, f) ==
    IF b = "ollama" THEN OllamaText(f) ELSE IF b = "openai" THEN SseText(f) ELSE GeminiLineText(f)

\* encoder.encode(JSON.stringify({ delta }) + "\n")
Record(text) == StringifyDelta(text) \o <<LF>>

\* The frames one read hands to the for loop, and the buffer it leaves.
FramesRead(b, buf, chunk) ==
    IF b = "openai"
    THEN LET events == SplitLFLF(buf \o chunk)
         IN  SubSeq(events, 1, Len(events) - 1)
    ELSE FilterBoolean(SplitLF(chunk))
\* A loop that forgets the incomplete tail of every read.
BufferLeft_Dropped(b, buf, chunk) == <<>>
BufferLeft(b, buf, chunk) ==
    IF b = "openai"
    THEN LET events == SplitLFLF(buf \o chunk) IN events[Len(events)]
    ELSE buf

\* The for loop walking the frames of a read from the last to the first.
RecordsOf_Reversed(b, frames) ==
    LET texts == [i \in 1..Len(frames) |-> FrameText(b, frames[Len(frames) + 1 - i])]
        kept == SelectSeq(texts, LAMBDA t : t # <<>>)
    IN  [i \in 1..Len(kept) |-> Record(kept[i])]

\* The records the for loop writes for these frames: one per truthy text.
RecordsOf(b, frames) ==
    LET texts == [i \in 1..Len(frames) |-> FrameText(b, frames[i])]
        kept == SelectSeq(texts, LAMBDA t : t # <<>>)
    IN  [i \in 1..Len(kept) |-> Record(kept[i])]

\* A loop that requests the next read without awaiting its writes.
NextStep_NoAwait(p) == "read"
\* await writer.write(...): the loop goes back to reader.read() only once the
\* for statement has no record left to write.
NextStep(p) == IF p = <<>> THEN "read" ELSE "write"

\* A loop that takes any read for the last one.
Done_Early(u) == TRUE
\* const { done } = await reader.read(): done once the body is exhausted.
Done(u) == u = <<>>

\* reader.read() returns the next k pieces; the loop splits and parses them.
Read(k) ==
    /\ spc = "read"
    /\ k \in 1..Len(unread)
    /\ LET b == Branch(handler, req.provider)
           chunk == SubSeq(unread, 1, k)
       IN  /\ pending' = RecordsOf(b, FramesRead(b, buffer, chunk))
           /\ buffer' = BufferLeft(b, buffer, chunk)
           /\ unread' = SubSeq(unread, k + 1, Len(unread))
           /\ extracted' = extracted \o pending'
           /\ spc' = NextStep(pending')
    /\ UNCHANGED <<handler, req, env, page, upstream, pc, rawHtml, calls, resp, out>>
    /\ UNCHANGED <<consumer, rejected>>
    /\ UNCHANGED promptVars
    /\ UNCHANGED clientVars

\* The reader of the outbound stream asks for its next chunk: the readable
\* side's high-water mark is 0, so only this lifts the stream's backpressure.
Pull ==
    /\ resp.streamed
    /\ spc \in {"read", "write"}
    /\ consumer = "idle"
    /\ consumer' = "pulling"
    /\ UNCHANGED <<handler, req, env, page, upstream, pc, rawHtml, calls, resp, spc, unread,
                   buffer, pending, out, rejected, extracted>>
    /\ UNCHANGED promptVars
    /\ UNCHANGED clientVars

\* The reader of the outbound stream cancels it (the client went away): the
\* writable side becomes errored.
Abandon ==
    /\ resp.streamed
    /\ spc \in {"read", "write"}
    /\ consumer # "gone"
    /\ consumer' = "gone"
    /\ UNCHANGED <<handler, req, env, page, upstream, pc, rawHtml, calls, resp, spc, unread,
                   buffer, pending, out, rejected, extracted>>
    /\ UNCHANGED promptVars
    /\ UNCHANGED clientVars

\* await writer.write(...) of the next record of the current read resolves:
\* the record goes to the consumer's outstanding pull.
Write ==
    /\ spc = "write"
    /\ consumer = "pulling"
    /\ out' = Append(out, Head(pending))
    /\ consumer' = "idle"
    /\ pending' = Tail(pending)
    /\ spc' = NextStep(pending')
    /\ UNCHANGED <<handler, req, env, page, upstream, pc, rawHtml, calls, resp, unread, buffer>>
    /\ UNCHANGED <<rejected, extracted>>
    /\ UNCHANGED promptVars
    /\ UNCHANGED clientVars

\* await writer.write(...) rejects on the errored writable side; the catch
\* around it swallows the rejection and the for statement goes on.
WriteRejected ==
    /\ spc = "write"
    /\ consumer = "gone"
    /\ rejected' = TRUE
    /\ pending' = Tail(pending)
    /\ spc' = NextStep(pending')
    /\ UNCHANGED <<handler, req, env, page, upstream, pc, rawHtml, calls, resp, unread, buffer,
                   out>>
    /\ UNCHANGED <<consumer, extracted>>
    /\ UNCHANGED promptVars
    /\ UNCHANGED clientVars

\* reader.read() reports done: the loop breaks and awaits writer.close(),
\* which rejects when the writable side is errored; otherwise the readable
\* side closes and a read the consumer has outstanding is answered with done.
Close ==
    /\ spc = "read"
    /\ Done(unread)
    /\ spc' = IF consumer = "gone" THEN "failed" ELSE "closed"
    /\ consumer' = IF consumer = "pulling" THEN "idle" ELSE consumer
    /\ UNCHANGED <<handler, req, env, page, upstream, pc, rawHtml, calls, resp, unread,
                   buffer, pending, out>>
    /\ UNCHANGED <<rejected, extracted>>
    /\ UNCHANGED promptVars
    /\ UNCHANGED clientVars

\* reader.read() rejects: the loop's promise rejects, nothing closes the writer.
ReadFails ==
    /\ spc = "read"
    /\ spc' = "failed"
    /\ UNCHANGED <<handler, req, env, page, upstream, pc, rawHtml, calls, resp, unread,
                   buffer, pending, out>>
    /\ UNCHANGED outbound
    /\ UNCHANGED promptVars
    /\ UNCHANGED clientVars

\* One iteration of the loop's read, for every size the read may return.
ReadSome == \E k \in 1..Len(unread) : Read(k)

Next ==
    \/ Post
    \/ PageAnswers
    \/ UpstreamAnswers
    \/ ReadSome
    \/ Pull
    \/ Abandon
    \/ Write
    \/ WriteRejected
    \/ Close
    \/ ReadFails

Spec == Init /\ [][Next]_vars

\* ------------------------------------------- the prompt, on its own inputs
\* The markup POST has resolved, with the document cheerio.load makes of it.
PromptInputs ==
    \/ doc \in Docs(MaxElems) /\ markup = MarkupOf(doc)
    \/ doc = <<>> /\ markup \in {TextMarkup(n) : n \in MarkupLengths}

InitPrompt ==
    /\ PromptInputs
    /\ ppc = "loaded"
    /\ signals = NoSignals
    /\ prompt = <<>>
    /\ handler \in Handlers
    /\ req = [url |-> <<>>, html |-> INLINE_HTML, provider |-> "ollama", key |-> Undefined,
              model |-> <<>>]
    /\ env = [GOOGLE_API_KEY |-> Undefined, OPENAI_API_KEY |-> Undefined]
    /\ page = NoPage
    /\ upstream = NoUpstream
    /\ pc = "start"
    /\ rawHtml = INLINE_HTML
    /\ calls = <<>>
    /\ resp = NoResponse
    /\ spc = "idle"
    /\ unread = <<>>
    /\ buffer = <<>>
    /\ pending = <<>>
    /\ out = <<>>
    /\ consumer = "idle"
    /\ rejected = FALSE
    /\ extracted = <<>>
    /\ ClientAtRest

\* const signals = runRules($)
CallRunRules ==
    /\ ppc = "loaded"
    /\ signals' = runRules(handler, doc)
    /\ ppc' = "ruled"
    /\ UNCHANGED <<doc, markup, prompt>>
    /\ UNCHANGED postVars
    /\ UNCHANGED clientVars

\* const prompt = buildPrompt(rawHtml, signals)
CallBuildPrompt ==
    /\ ppc = "ruled"
    /\ prompt' = buildPrompt(handler, markup, signals)
    /\ ppc' = "built"
    /\ UNCHANGED <<doc, markup, signals>>
    /\ UNCHANGED postVars
    /\ UNCHANGED clientVars

NextPrompt ==
    \/ CallRunRules
    \/ CallBuildPrompt

SpecPrompt == InitPrompt /\ [][NextPrompt]_vars

\* ------------------------------------------------- the client, on its own
InitClient ==
    /\ url = ""
    /\ htmlInput = ""
    /\ provider = "gemini"
    /\ model = GEMINI_DEFAULT_MODEL
    /\ apiKey = ""
    /\ userEvents = 0
    /\ res \in Responses
    /\ loading = FALSE
    /\ result = <<>>
    /\ statusText = <<>>
    /\ errorText = <<>>
    /\ cpc = "idle"
    /\ inbound = <<>>
    /\ sent = <<>>
    /\ doc = <<>>
    /\ markup = <<>>
    /\ signals = NoSignals
    /\ prompt = <<>>
    /\ ppc = "idle"
    /\ handler = PART_000
    /\ req = [url |-> <<>>, html |-> INLINE_HTML, provider |-> "ollama", key |-> Undefined,
              model |-> <<>>]
    /\ env = [GOOGLE_API_KEY |-> Undefined, OPENAI_API_KEY |-> Undefined]
    /\ page = NoPage
    /\ upstream = NoUpstream
    /\ pc = "start"
    /\ rawHtml = INLINE_HTML
    /\ calls = <<>>
    /\ resp = NoResponse
    /\ spc = "idle"
    /\ unread = <<>>
    /\ buffer = <<>>
    /\ pending = <<>>
    /\ out = <<>>
    /\ consumer = "idle"
    /\ rejected = FALSE
    /\ extracted = <<>>

\* JSON.stringify({ url, html: htmlInput, provider, key: apiKey, model })
RequestBody ==
    [url |-> url, html |-> htmlInput, provider |-> provider, key |-> apiKey, model |-> model]

\* onChange of the url field: setUrl(e.target.value).
ChangeUrl ==
    /\ userEvents < MaxEvents
    /\ \E v \in ClientUrls \ {url} : url' = v
    /\ userEvents' = userEvents + 1
    /\ UNCHANGED <<htmlInput, provider, model, apiKey>>
    /\ UNCHANGED <<loading, result, statusText, errorText, res, cpc, inbound, sent>>
    /\ UNCHANGED <<postVars, promptVars>>

\* onChange of the html field: setHtmlInput(e.target.value).
ChangeHtmlInput ==
    /\ userEvents < MaxEvents
    /\ \E v \in ClientHtmls \ {htmlInput} : htmlInput' = v
    /\ userEvents' = userEvents + 1
    /\ UNCHANGED <<url, provider, model, apiKey>>
    /\ UNCHANGED <<loading, result, statusText, errorText, res, cpc, inbound, sent>>
    /\ UNCHANGED <<postVars, promptVars>>

\* onChange of the provider select: setProvider(e.target.value), and the
\* effect on provider that follows it sets the provider's default model.
ChangeProvider ==
    /\ userEvents < MaxEvents
    /\ \E p \in ClientProviders \ {provider} :
          /\ provider' = p
          /\ model' = ModelAfterProvider(p, model)
    /\ userEvents' = userEvents + 1
    /\ UNCHANGED <<url, htmlInput, apiKey>>
    /\ UNCHANGED <<loading, result, statusText, errorText, res, cpc, inbound, sent>>
    /\ UNCHANGED <<postVars, promptVars>>

\* onChange of the key field, rendered unless the provider is ollama.
ChangeApiKey ==
    /\ userEvents < MaxEvents
    /\ provider # "ollama"
    /\ \E v \in ClientKeys \ {apiKey} : apiKey' = v
    /\ userEvents' = userEvents + 1
    /\ UNCHANGED <<url, htmlInput, provider, model>>
    /\ UNCHANGED <<loading, result, statusText, errorText, res, cpc, inbound, sent>>
    /\ UNCHANGED <<postVars, promptVars>>

\* onChange of the model field, rendered unless the provider is ollama.
ChangeModel ==
    /\ userEvents < MaxEvents
    /\ provider # "ollama"
    /\ \E v \in ClientModels \ {model} : model' = v
    /\ userEvents' = userEvents + 1
    /\ UNCHANGED <<url, htmlInput, provider, apiKey>>
    /\ UNCHANGED <<loading, result, statusText, errorText, res, cpc, inbound, sent>>
    /\ UNCHANGED <<postVars, promptVars>>

\* A click on the Analyze button, which is disabled while loading:
\* handleAnalyze from its entry to its await of fetch.
HandleAnalyze ==
    /\ ~loading
    /\ cpc \in {"idle", "exited"}
    /\ IF url = "" /\ htmlInput = ""
       THEN UNCHANGED <<loading, result, statusText, errorText, cpc, sent, userEvents>>
       ELSE /\ userEvents < MaxEvents
            /\ userEvents' = userEvents + 1
            /\ loading' = TRUE
            /\ result' = <<>>
            /\ errorText' = <<>>
            /\ statusText' = <<>>
            /\ sent' = Append(sent, RequestBody)
            /\ cpc' = "fetching"
    /\ UNCHANGED <<url, htmlInput, provider, model, apiKey, res, inbound>>
    /\ UNCHANGED <<postVars, promptVars>>

\* await fetch(...) settles: a rejection goes to catch and finally; a
\* response sets the status line and selects the way its body is read.
FetchSettles ==
    /\ cpc = "fetching"
    /\ IF res.throws
       THEN /\ errorText' = <<"Failed to fetch">>
            /\ loading' = Finally(loading)
            /\ cpc' = "exited"
            /\ UNCHANGED <<statusText, inbound>>
       ELSE /\ statusText' = StatusLine(res)
            /\ cpc' = IF ~Ok(res.status) THEN "error_text"
                      ELSE IF ~res.hasBody THEN "fallback_text" ELSE "reading"
            /\ inbound' = IF Ok(res.status) /\ res.hasBody THEN res.body ELSE inbound
            /\ UNCHANGED <<errorText, loading>>
    /\ UNCHANGED <<formVars, res, result, sent>>
    /\ UNCHANGED <<postVars, promptVars>>

\* if (!res.ok): await res.text() settles, the message is shown.
ErrorTextSettles ==
    /\ cpc = "error_text"
    /\ errorText' = ErrorMessage(res.body)
    /\ loading' = Finally(FALSE)
    /\ cpc' = "exited"
    /\ UNCHANGED <<formVars, res, result, statusText, inbound, sent>>
    /\ UNCHANGED <<postVars, promptVars>>

\* if (!reader): await res.text() settles, the whole body is the result.
FallbackSettles ==
    /\ cpc = "fallback_text"
    /\ result' = FallbackResult(res.body)
    /\ loading' = Finally(FALSE)
    /\ cpc' = "exited"
    /\ UNCHANGED <<formVars, res, statusText, errorText, inbound, sent>>
    /\ UNCHANGED <<postVars, promptVars>>

\* reader.read() returns the next k pieces: the chunk is split into lines and
\* each line that parses and has a delta is appended to result.
ClientRead(k) ==
    /\ cpc = "reading"
    /\ k \in 1..Len(inbound)
    /\ inbound' = SubSeq(inbound, k + 1, Len(inbound))
    /\ LET chunk == SubSeq(inbound, 1, k)
           lines == FilterBoolean(SplitLF(chunk))
       IN  result' = result \o Flatten([i \in 1..Len(lines) |-> CleanedDelta(lines[i])])
    /\ UNCHANGED <<formVars, res, loading, statusText, errorText, cpc, sent>>
    /\ UNCHANGED <<postVars, promptVars>>

\* reader.read() reports done: the loop breaks, finally runs.
ClientReadDone ==
    /\ cpc = "reading"
    /\ inbound = <<>>
    /\ loading' = Finally(loading)
    /\ cpc' = "exited"
    /\ UNCHANGED <<formVars, res, result, statusText, errorText, inbound, sent>>
    /\ UNCHANGED <<postVars, promptVars>>

\* reader.read() rejects: catch shows the message, finally runs.
ClientReadFails ==
    /\ cpc = "reading"
    /\ errorText' = <<"network error">>
    /\ loading' = Finally(loading)
    /\ cpc' = "exited"
    /\ UNCHANGED <<formVars, res, result, statusText, inbound, sent>>
    /\ UNCHANGED <<postVars, promptVars>>

ClientReadSome == \E k \in 1..Len(inbound) : ClientRead(k)

NextClient ==
    \/ ChangeUrl
    \/ ChangeHtmlInput
    \/ ChangeProvider
    \/ ChangeApiKey
    \/ ChangeModel
    \/ HandleAnalyze
    \/ FetchSettles
    \/ ErrorTextSettles
    \/ FallbackSettles
    \/ ClientReadSome
    \/ ClientReadDone
    \/ ClientReadFails

SpecClient == InitClient /\ [][NextClient]_vars

\* A request of handleAnalyze is in flight.
InFlight == cpc \in {"fetching", "error_text", "fallback_text", "reading"}

\* The next promise handleAnalyze awaits settles: the fetch, the text of the
\* body, or a read of the body's reader (handleAnalyze awaits one at a time).
Settles ==
    \/ FetchSettles
    \/ ErrorTextSettles
    \/ FallbackSettles
    \/ ClientReadSome
    \/ ClientReadDone
    \/ ClientReadFails
\* Every promise handleAnalyze awaits settles: weak fairness of Settles, with
\* the condition under which a step of Settles is possible written out (a
\* request is in flight exactly when one of its promises is pending).
ClientFairness == []<>(~InFlight) \/ []<><<Settles>>_vars
SpecClientFair == SpecClient /\ ClientFairness

\* ================================================================ claims
TheBranch == Branch(handler, req.provider)
ModelCalled == \E i \in 1..Len(calls) : calls[i].to # "page"
PageFetched == \E i \in 1..Len(calls) : calls[i].to = "page"
\* The upstream answered with a success status.
UpstreamOk == ModelCalled /\ ~upstream.throws /\ Ok(upstream.status)

\* The frames of the whole upstream body, as the upstream sent them.
UpstreamFrames == FramesRead(TheBranch, <<>>, upstream.body)
\* The text fragments of the upstream's data frames, in upstream order.
UpstreamTexts ==
    LET frames == UpstreamFrames
    IN  SelectSeq([i \in 1..Len(frames) |-> FrameText(TheBranch, frames[i])],
                  LAMBDA t : t # <<>>)
\* A frame that is meant as data and is not JSON.
Malformed(b, f) ==
    IF b = "openai"
    THEN f # <<>> /\ Head(f) = SSE_DATA /\ Trim(Tail(f)) # <<SSE_DONE>>
         /\ ~JSONparse(Trim(Tail(f))).ok
    ELSE ~JSONparse(f).ok

\* The delta field of one written record or one-line body.
DeltaOf(line) == JSONparse(Trim(line)).str
Deltas == [i \in 1..Len(out) |-> DeltaOf(out[i])]

\* A 400 response whose body is a JSON {error} document.
IsJsonError400(r) ==
    r.status = 400 /\ ~r.streamed /\ "error" \in JSONparse(r.body).has

\* The body the caller of POST reads.
ResponseBody == IF resp.streamed THEN Flatten(out) ELSE resp.body

\* C1: on a successful streaming response of the ollama or openai adapter,
\* whatever reads the upstream body was split into, the deltas written, joined
\* in order, are the text fragments of the upstream's data frames, joined in order.
C1_DeltasReconstructUpstreamText ==
    (spc = "closed" /\ TheBranch \in {"ollama", "openai"} /\ UpstreamOk)
        => Flatten(Deltas) = Flatten(UpstreamTexts)

\* C2: in a stream holding a frame that is not JSON, every well-formed frame
\* before and after it still yields its record, and the outbound stream is
\* closed only once the upstream is at end-of-stream.
C2_MalformedFrameIsolated ==
    /\ (spc = "closed" => unread = <<>>)
    /\ (/\ spc = "closed"
        /\ TheBranch \in {"ollama", "openai"}
        /\ UpstreamOk
        /\ \E i \in 1..Len(UpstreamFrames) : Malformed(TheBranch, UpstreamFrames[i]))
       => Deltas = UpstreamTexts

\* C3: a request whose url and html are both empty or absent is answered 400
\* with a JSON {error} body, and no outbound call is ever made for it.
C3_EmptyInputRejected ==
    (req.url = <<>> /\ Falsy(req.html))
        => /\ calls = <<>>
           /\ pc \in {"start", "returned"}
           /\ (pc = "returned" => IsJsonError400(resp))
C3_Witness ==
    /\ req.url = <<>> /\ Falsy(req.html)
    /\ pc = "returned"
    /\ resp.body = StringifyError(<<"No URL/HTML provided.">>)

\* C4: in the handler with the one-shot gemini branch, a gemini request with
\* usable html and no non-empty key in the request or in GOOGLE_API_KEY is
\* answered 400 with a JSON {error} body, and the gemini endpoint is never called.
C4_GeminiWithoutKeyRejected ==
    (handler = PART_000 /\ req.provider = "gemini" /\ Falsy(req.key)
     /\ Falsy(env.GOOGLE_API_KEY))
        => /\ ~ModelCalled
           /\ pc \in {"start", "await_page", "returned"}
           /\ (pc = "returned" => IsJsonError400(resp))
C4_Witness ==
    /\ handler = PART_000 /\ req.provider = "gemini"
    /\ Falsy(req.key) /\ Falsy(env.GOOGLE_API_KEY)
    /\ rawHtml # ""
    /\ pc = "returned"
    /\ resp.body = StringifyError(<<"Missing Google API key.">>)

\* C5: whenever the model provider answers with a non-success status, the
\* response POST returns has the upstream's status and the upstream's raw body.
C5_UpstreamErrorForwarded ==
    (/\ pc = "returned"
     /\ ModelCalled
     /\ ~upstream.throws
     /\ ~Ok(upstream.status)
     /\ (resp.streamed => spc = "closed"))
        => resp.status = upstream.status /\ ResponseBody = upstream.body

\* C6: on a success of the one-shot gemini provider, the delta returned is the
\* texts of the first candidate's parts joined, or the raw upstream body when
\* that extraction fails or is empty.
C6_GeminiDeltaIsExtractedText ==
    (handler = PART_000 /\ TheBranch = "gemini" /\ pc = "returned" /\ UpstreamOk)
        => DeltaOf(resp.body) =
             IF JSONparse(upstream.body).ok /\ ShadowedText(upstream.body) # <<>>
             THEN ShadowedText(upstream.body)
             ELSE upstream.body

\* A text that is exactly one JSON {delta} line ended by its only line feed.
OneDeltaLine(body) ==
    /\ Len(body) >= 1
    /\ IndexOf(body, LF, 1) = Len(body)
    /\ "delta" \in JSONparse(SubSeq(body, 1, Len(body) - 1)).has

\* C7: on every success of the one-shot gemini provider the response has
\* status 200 and its body is exactly one newline-terminated {delta} line,
\* whatever the upstream document holds.
C7_GeminiOneDeltaLine ==
    (handler = PART_000 /\ req.provider = "gemini" /\ pc = "returned" /\ UpstreamOk)
        => resp.status = 200 /\ ~resp.streamed /\ OneDeltaLine(resp.body)
C7_Witness ==
    /\ handler = PART_000 /\ req.provider = "gemini" /\ pc = "returned" /\ UpstreamOk
    /\ upstream.body = RAW_TEXT
    /\ DeltaOf(resp.body) = <<"[gemini ok]", LF>> \o RAW_TEXT

\* The provider values each handler has a branch for.
Recognized(h) == IF h = PART_000 THEN {"ollama", "gemini"} ELSE {"ollama", "openai", "gemini"}

\* C8: a request whose provider is none of the handler's discriminators is
\* answered 400 with a JSON {error} body, and no model endpoint is ever called.
C8_UnknownProviderRejected ==
    (req.provider \notin Recognized(handler))
        => /\ ~ModelCalled
           /\ pc \in {"start", "await_page", "returned"}
           /\ (pc = "returned" => IsJsonError400(resp))
C8_Witness ==
    /\ req.provider \notin Recognized(handler)
    /\ rawHtml # ""
    /\ pc = "returned"
    /\ resp.body = StringifyError(<<"Unknown provider">>)

\* The provider needs a credential and neither the request nor the
\* configuration holds a non-empty one.
NoKeyAvailable ==
    \/ req.provider = "openai" /\ handler = ROUTE_TS /\ Falsy(req.key)
       /\ Falsy(env.OPENAI_API_KEY)
    \/ req.provider = "gemini" /\ Falsy(req.key) /\ Falsy(env.GOOGLE_API_KEY)

\* C9: for a provider that needs a credential (openai, gemini), a request with
\* no key available is answered 400 and the upstream is never called.
C9_NoCallWithoutCredential ==
    NoKeyAvailable
        => /\ ~ModelCalled
           /\ (pc = "returned" => resp.status = 400)

\* C10: when the request carries non-empty inline html, that html is the
\* markup used and the url is never fetched, even when a url is also present.
C10_InlineHtmlNeverFetches ==
    ~Falsy(req.html)
        => /\ ~PageFetched
           /\ (pc # "start" => rawHtml = req.html)

\* C11: when inline html is empty and the fetch of the url fails with a network
\* error, the failure does not escape POST: the markup stays empty, the answer
\* is 400 with a JSON {error} body, and no model endpoint is called.
C11_FetchFailureBecomesInputError ==
    (Falsy(req.html) /\ PageFetched /\ page.throws)
        => /\ ~ModelCalled
           /\ pc \in {"await_page", "returned"}
           /\ (pc = "returned" => rawHtml = "" /\ IsJsonError400(resp))
C11_Witness ==
    /\ Falsy(req.html) /\ PageFetched /\ page.throws
    /\ pc = "returned"
    /\ resp.body = StringifyError(<<"No URL/HTML provided.">>)

\* The model name begins with the prefix, letter case ignored.
BeginsIgnoringCase(m, prefix) == StartsWith(Lower(m), prefix)
\* The model name the claim expects the ollama adapter to send.
ExpectedOllamaModel(m) ==
    IF \/ m = <<>>
       \/ BeginsIgnoringCase(m, <<"g", "p", "t", "-">>)
       \/ BeginsIgnoringCase(m, <<"g", "e", "m", "i", "n", "i">>)
    THEN <<"deepseek-r1:14b">>
    ELSE m

\* C12: the ollama adapter of part_000 sends the default model name when the
\* request's model is absent, empty or begins (in any letter case) with gpt- or
\* gemini, and sends exactly the request's model in every other case.
C12_OllamaModelName ==
    \A i \in 1..Len(calls) :
        (handler = PART_000 /\ calls[i].to = "ollama")
            => calls[i].model = ExpectedOllamaModel(req.model)
C12_Witness ==
    /\ handler = PART_000
    /\ req.model = MODEL_GEMINI_UPPER
    /\ \E i \in 1..Len(calls) :
          calls[i].to = "ollama" /\ calls[i].model = <<"deepseek-r1:14b">>
C12_WitnessKept ==
    /\ handler = PART_000
    /\ req.model = MODEL_XGPT
    /\ \E i \in 1..Len(calls) : calls[i].to = "ollama" /\ calls[i].model = MODEL_XGPT

\* C15: one request issues at most one fetch of the target page and at most
\* one call to a model endpoint, whatever fails on the way.
C15_NoCallRepeated ==
    /\ Cardinality({i \in 1..Len(calls) : calls[i].to = "page"}) <= 1
    /\ Cardinality({i \in 1..Len(calls) : calls[i].to # "page"}) <= 1
C15_Witness ==
    /\ PageFetched /\ ModelCalled
    /\ ~upstream.throws /\ ~Ok(upstream.status)
    /\ spc = "closed"
    /\ Len(calls) = 2

RECURSIVE IsSubsequence(_, _)
\* s is t with some of its elements left out, the others in t's order.
IsSubsequence(s, t) ==
    IF s = <<>> THEN TRUE
    ELSE IF t = <<>> THEN FALSE
    ELSE IF Head(s) = Head(t) THEN IsSubsequence(Tail(s), Tail(t))
    ELSE IsSubsequence(s, Tail(t))

\* The deltas of the records written so far and of those waiting to be written.
DeltasSoFar == Deltas \o [i \in 1..Len(pending) |-> DeltaOf(pending[i])]

\* C13: in every streaming response, at every moment, the deltas of the
\* records emitted are texts of distinct upstream frames taken in upstream
\* order: each frame gives at most one record, and none is re-ordered,
\* duplicated or merged with another frame's text.
C13_RecordsFollowUpstreamOrder ==
    resp.streamed => IsSubsequence(DeltasSoFar, UpstreamTexts)
C13_Witness ==
    /\ resp.streamed /\ spc = "closed"
    /\ Len(out) = 3
    /\ Deltas[1] # Deltas[2]
    /\ Deltas = UpstreamTexts
    /\ Len(UpstreamFrames) = 3

\* C14: once a write of the loop has failed because the consumer abandoned
\* the outbound stream, the loop issues no further upstream read.
C14_NoReadAfterAbandonment == [][rejected => unread' = unread]_vars

\* The part of the upstream body the reads so far have returned.
Consumed == SubSeq(upstream.body, 1, Len(upstream.body) - Len(unread))
\* The records of the openai loop when the text arrives as a single chunk.
SingleChunk(text) == RecordsOf("openai", FramesRead("openai", <<>>, text))

\* C18: in the openai adapter, whatever reads the SSE stream is split into,
\* the records extracted so far are those of the complete frames received so
\* far, the incomplete tail is what the buffer holds, and a stream that closes
\* has emitted the records of the same stream arriving as one chunk.
C18_StraddlingFrameBuffered ==
    (resp.streamed /\ TheBranch = "openai")
        => /\ extracted = SingleChunk(Consumed)
           /\ buffer = BufferLeft("openai", <<>>, Consumed)
           /\ (spc = "closed" => out = SingleChunk(upstream.body))
C18_Witness ==
    /\ resp.streamed /\ TheBranch = "openai"
    /\ spc = "read"
    /\ Len(out) = 1
    /\ buffer = <<SSE_DATA, OA_OPEN, "b">>
    /\ unread # <<>>

\* C19: an upstream read is taken only when no record of the previous read is
\* left to write, and while a record waits for a consumer that is not reading,
\* the loop takes no read and writes nothing.
C19_WritesAwaitedBeforeNextRead ==
    [][/\ (unread' # unread) => pending = <<>>
       /\ (pending # <<>> /\ consumer = "idle")
             => (unread' = unread /\ pending' = pending /\ out' = out)]_vars
C19_Witness ==
    /\ spc = "write"
    /\ consumer = "idle"
    /\ Len(out) = 1
    /\ Len(pending) = 2
    /\ unread # <<>>

\* C20: a closed outbound stream means the upstream reported end-of-stream,
\* every record extracted was written, and the chunks written are those
\* records and nothing else; nothing is written once the stream is closed.
C20_ClosedOnlyWhenDrained ==
    /\ [](spc = "closed" => (unread = <<>> /\ pending = <<>> /\ out = extracted))
    /\ [][spc = "closed" => out' = out]_vars
C20_Witness ==
    /\ spc = "closed"
    /\ TheBranch = "openai"
    /\ Len(UpstreamFrames) = 3
    /\ UpstreamFrames[3] = <<SSE_DATA, SSE_DONE>>
    /\ Len(out) = 2
    /\ out = extracted

\* The positions in the document of the elements a CTA selector matches.
CtaPositions ==
    {i \in 1..Len(doc) :
        \/ IsSubmitButton(doc[i])
        \/ IsSignInButton(doc[i])
        \/ IsBuyButton(doc[i])
        \/ IsAnchorButton(doc[i])}

\* C16: primaryCtaGuess is the trimmed text of the element that comes first
\* in document order among those matching any CTA selector, whichever
\* selector of the list it matches, and the empty string when none matches.
C16_FirstCtaInDocumentOrder ==
    ppc \in {"ruled", "built"}
        => signals.primaryCtaGuess =
             IF CtaPositions = {} THEN <<>>
             ELSE LET first == CHOOSE i \in CtaPositions : \A j \in CtaPositions : i <= j
                  IN  TrimSpaces(doc[first].text)
C16_Witness ==
    /\ ppc = "ruled"
    /\ doc = <<E_INPUT_SUBMIT, E_ANCHOR_BUTTON, E_SUBMIT>>
    /\ signals.primaryCtaGuess = <<"L", "a", "t", "e", "r">>
C16_WitnessNone ==
    /\ ppc = "ruled"
    /\ doc = <<E_INPUT_SUBMIT, E_SIGN_IN_CAPS, E_ANCHOR_ROLE>>
    /\ signals.primaryCtaGuess = <<>>

\* C17: the prompt ends with the heading of the raw html, then exactly the
\* first min(length, 4000) characters of the markup, then one newline: nothing
\* past index 4000 of the markup is in it, and markup of at most 4000
\* characters is there in full.
C17_PromptEndsWithTruncatedHtml ==
    ppc = "built"
        => LET n == IF Len(markup) < 4000 THEN Len(markup) ELSE 4000
               last == Len(prompt)
           IN  /\ last >= n + 3
               /\ prompt[last] = LF
               /\ SubSeq(prompt, last - n, last - 1) = SubSeq(markup, 1, n)
               /\ SubSeq(prompt, last - n - 2, last - n - 1) = <<RawHtmlHeading(handler), LF>>
               /\ \A i \in 1..last : prompt[i] # PAST_LIMIT
               /\ (Len(markup) <= 4000 => SubSeq(prompt, last - n, last - 1) = markup)
C17_Witness ==
    /\ ppc = "built"
    /\ Len(markup) = 4001
    /\ markup[4001] = PAST_LIMIT
    /\ prompt[Len(prompt) - 1] = LAST_KEPT
    /\ prompt[Len(prompt)] = LF
C17_WitnessWhole ==
    /\ ppc = "built"
    /\ Len(markup) = 3999
    /\ SubSeq(prompt, Len(prompt) - 3999, Len(prompt) - 1) = markup

\* The url begins with http:// or https://, in any letter case.
IsHttpUrl(u) ==
    \/ BeginsIgnoringCase(u, <<"h", "t", "t", "p", ":", "/", "/">>)
    \/ BeginsIgnoringCase(u, <<"h", "t", "t", "p", "s", ":", "/", "/">>)

\* C22: in the handler of part_000 the target page is fetched only when the
\* inline html is empty and the url begins with http:// or https:// in any
\* letter case; with empty html and any other url no outbound call is made
\* and the answer is 400.
C22_FetchOnlyForHttpUrl ==
    handler = PART_000
        => /\ PageFetched => (Falsy(req.html) /\ IsHttpUrl(req.url))
           /\ (Falsy(req.html) /\ ~IsHttpUrl(req.url))
                 => /\ calls = <<>>
                    /\ pc \in {"start", "returned"}
                    /\ (pc = "returned" => resp.status = 400)
C22_Witness ==
    /\ handler = PART_000
    /\ req.url = URL_HTTP_NO_SLASHES
    /\ Falsy(req.html)
    /\ pc = "returned"
    /\ calls = <<>>
    /\ resp.status = 400
C22_WitnessFetched ==
    /\ handler = PART_000
    /\ req.url = URL_HTTPS_UPPER
    /\ PageFetched

\* The read loop has run to its end: no step of it is left to take.
LoopEnded == spc \in {"closed", "failed"}
\* The outbound stream is closed, or errored by its consumer's cancel.
OutboundSettled == spc = "closed" \/ consumer = "gone"

\* C21: a streaming response handed back to the caller terminates: once the
\* read loop is over, by end-of-stream or by a failed upstream read, the
\* outbound stream is closed or errored, so its reader is not left waiting.
C21_StreamedResponseTerminates ==
    (resp.streamed /\ LoopEnded) => OutboundSettled

\* The lines of the whole response body, and what they add to result when
\* each is taken whole.
BodyLines == FilterBoolean(SplitLF(res.body))
DeltasOfBody == Flatten([i \in 1..Len(BodyLines) |-> CleanedDelta(BodyLines[i])])
\* handleAnalyze has read the body of a success response to its end.
StreamDrained ==
    /\ cpc = "exited"
    /\ ~res.throws /\ Ok(res.status) /\ res.hasBody
    /\ inbound = <<>>
    /\ errorText = <<>>

\* C23: whatever reads the response body is split into, once the client has
\* drained it the result is the cleaned deltas of all the record lines of the
\* body, joined in order.
C23_ResultIsConcatenatedDeltas == StreamDrained => result = DeltasOfBody

\* No step changes what a request works on: the flag, the texts shown, the
\* handler's position, the bodies posted.
C24_Untouched ==
    /\ cpc' = cpc /\ loading' = loading /\ sent' = sent
    /\ result' = result /\ statusText' = statusText /\ errorText' = errorText

\* C24: loading is true exactly while a request of handleAnalyze is in
\* flight, so every exit path leaves it false; with url and htmlInput both
\* empty no request is issued and nothing changes; and, every awaited promise
\* settling, loading once true becomes false again.
C24_LoadingFollowsRequest ==
    /\ [](loading <=> InFlight)
    /\ [][(~loading /\ url = "" /\ htmlInput = "") => C24_Untouched]_vars
    /\ (loading ~> ~loading)
C24_Witness ==
    /\ cpc = "exited"
    /\ res.throws
    /\ ~loading
    /\ errorText = <<"Failed to fetch">>
    /\ Len(sent) = 2
C24_WitnessNonOk ==
    cpc = "exited" /\ ~loading /\ res.status = 400 /\ errorText = <<"No URL/HTML provided.">>
C24_WitnessFallback ==
    cpc = "exited" /\ ~loading /\ res.body = CL_FENCE_OPEN \o <<LF>> /\ ~res.hasBody /\ result = <<"b">>
C24_WitnessDrained ==
    StreamDrained /\ ~loading /\ Len(BodyLines) = 2 /\ result = <<"a", "b">>

====
